---- MODULE Spec2Model ----
(***************************************************************************)
(* Model of the line-list trimmer of src/trimmer.py: the windowed           *)
(* extraction create_window_linelist with its two boundary locators, the    *)
(* output writer write_lines and the combiner combine_linelists.            *)
(*                                                                          *)
(* Text is modelled at token level: a string is a sequence of one-character *)
(* strings, a line is the sequence of its whitespace-separated tokens       *)
(* (line.strip().split()), a file is the sequence of its lines.  Indices    *)
(* keep the 0-based values of the Python code; At(s, i) reads s[i].         *)
(* Wavelengths are the integral values of integer-literal tokens.           *)
(***************************************************************************)
EXTENDS Integers, Sequences, FiniteSets, TLC

\* Bounds of the model.
MaxWave == 3
MaxBlockLen == 3
MaxSegs == 2
MaxCombines == 2
LocMaxWave == 3
LocMaxLen == 5
ExampleMaxTarget == 60

VARIABLES
    files,                  \* input directory: sequence of files, in scandir order
    seg_begins,             \* caller's segment begins (unsorted)
    seg_ends,               \* caller's segment ends
    molecules_flag,
    lbl,
    do_hydrogen,
    pc,                     \* position in the pipeline
    line_list_number,       \* index of the file the for loop is at (0-based)
    line_number_read_file,  \* cursor of the block reader into lines_file
    first_line_read,
    dirs,                   \* group directories under new_path_name
    fs,                     \* <<group, file number>> -> lines of linelist-<n>.bsyn
    combined,               \* group -> lines of the combined document
    combines,               \* number of completed combine_linelists calls
    last,                   \* record of the last block iteration and its write_lines call
    loc                     \* a direct call of the boundary locators

vars == <<files, seg_begins, seg_ends, molecules_flag, lbl, do_hydrogen, pc,
          line_list_number, line_number_read_file, first_line_read, dirs, fs,
          combined, combines, last, loc>>

-----------------------------------------------------------------------------
\* Python primitives

At(s, i) == s[i + 1]

Slice(s, a, b) == SubSeq(s, a + 1, b)

Digits == <<"0", "1", "2", "3", "4", "5", "6", "7", "8", "9">>

DigitVal(c) == (CHOOSE d \in 1..10 : Digits[d] = c) - 1

RECURSIVE ParseInt(_)
ParseInt(s) ==
    IF Len(s) = 0 THEN 0
    ELSE ParseInt(SubSeq(s, 1, Len(s) - 1)) * 10 + DigitVal(s[Len(s)])

RECURSIVE IntToStr(_)
IntToStr(n) ==
    IF n < 10 THEN <<Digits[n + 1]>>
    ELSE IntToStr(n \div 10) \o <<Digits[(n % 10) + 1]>>

\* A line ends with its newline, except that the last line of a file may lack
\* it: such a line carries NO_NEWLINE as its last token.
NO_NEWLINE == <<"<no newline>">>

Unterminated(line) == line # <<>> /\ line[Len(line)] = NO_NEWLINE

\* Blanks between two tokens are implicit; blanks before the first token of a
\* line or after its last one are the token BLANK.
BLANK == <<" ">>

\* line.strip().split()
RECURSIVE Fields(_)
Fields(line) ==
    IF line = <<>> THEN <<>>
    ELSE IF line[1] = BLANK \/ line[1] = NO_NEWLINE THEN Fields(Tail(line))
    ELSE <<line[1]>> \o Fields(Tail(line))

\* float(line.strip().split()[0]) of a data line
LineWavelength(line) == ParseInt(Fields(line)[1])

\* element.split('.', 1)[0]
BeforeDot(s) ==
    IF \E i \in 1..Len(s) : s[i] = "."
    THEN SubSeq(s, 1, (CHOOSE i \in 1..Len(s) :
                          s[i] = "." /\ \A j \in 1..(i - 1) : s[j] # ".") - 1)
    ELSE s

\* "'01.000000'" (with the quotes) and '01.000000' (without)
HYDROGEN_QUOTED == <<"'", "0", "1", ".", "0", "0", "0", "0", "0", "0", "'">>

HYDROGEN_BARE == <<"0", "1", ".", "0", "0", "0", "0", "0", "0">>

-----------------------------------------------------------------------------
\* Segments: np.argsort(seg_begins) applied to begins and ends

SegPair(i) == <<seg_begins[i], seg_ends[i]>>

RECURSIVE InsertSorted(_, _)
InsertSorted(s, p) ==
    IF Len(s) = 0 THEN <<p>>
    ELSE IF s[Len(s)][1] <= p[1] THEN Append(s, p)
    ELSE Append(InsertSorted(SubSeq(s, 1, Len(s) - 1), p), s[Len(s)])

RECURSIVE SortPrefix(_)
SortPrefix(n) ==
    IF n = 0 THEN <<>> ELSE InsertSorted(SortPrefix(n - 1), SegPair(n))

segments_to_use == SortPrefix(Len(seg_begins))

SeqMin(s) == CHOOSE x \in {s[i] : i \in 1..Len(s)} : \A j \in 1..Len(s) : x <= s[j]

SeqMax(s) == CHOOSE x \in {s[i] : i \in 1..Len(s)} : \A j \in 1..Len(s) : x >= s[j]

segment_min_wavelength == SeqMin(seg_begins)

segment_max_wavelength == SeqMax(seg_ends)

-----------------------------------------------------------------------------
\* Wavelength cache and boundary locators.  A locator returns the index and
\* the cache dictionary as the call leaves it.

get_wavelength_from_array(array_to_search, dict_array_values, index_to_search, offset_idx) ==
    IF index_to_search \in DOMAIN dict_array_values
    THEN dict_array_values
    ELSE dict_array_values @@
         (index_to_search :> LineWavelength(At(array_to_search, index_to_search + offset_idx)))

RECURSIVE LeftScanBack(_, _, _, _, _, _)
LeftScanBack(arr, d, low, off, x, mid) ==
    IF mid > 0
    THEN LET d1 == get_wavelength_from_array(arr, d, mid + low - 1, off)
         IN  IF d1[mid + low - 1] = x
             THEN LeftScanBack(arr, d1, low, off, x, mid - 1)
             ELSE [idx |-> mid, dict |-> d1]
    ELSE [idx |-> mid, dict |-> d]

RECURSIVE LeftLoop(_, _, _, _, _, _, _)
LeftLoop(arr, d, low, off, x, left, right) ==
    IF left <= right
    THEN LET mid == (left + right) \div 2
             d1 == get_wavelength_from_array(arr, d, mid + low, off)
             mid_value == d1[mid + low]
         IN  IF mid_value < x THEN LeftLoop(arr, d1, low, off, x, mid + 1, right)
             ELSE IF mid_value > x THEN LeftLoop(arr, d1, low, off, x, left, mid - 1)
             ELSE LET r == LeftScanBack(arr, d1, low, off, x, mid)
                  IN  [idx |-> r.idx + low, dict |-> r.dict]
    ELSE [idx |-> left + low, dict |-> d]

binary_find_left_segment_index(arr, d, low, high, off, x) ==
    LET h == high - 1
        d1 == get_wavelength_from_array(arr, d, low, off)
    IN  IF x <= d1[low] THEN [idx |-> low, dict |-> d1]
        ELSE LET d2 == get_wavelength_from_array(arr, d1, h, off)
             IN  IF x >= d2[h] THEN [idx |-> h, dict |-> d2]
                 ELSE LeftLoop(arr, d2, low, off, x, 0, h)

RECURSIVE RightLoop(_, _, _, _, _, _, _)
RightLoop(arr, d, low, off, x, left, right) ==
    IF left < right
    THEN LET mid == (left + right) \div 2
             d1 == get_wavelength_from_array(arr, d, mid + low, off)
             mid_value == d1[mid + low]
         IN  IF mid_value <= x THEN RightLoop(arr, d1, low, off, x, mid + 1, right)
             ELSE RightLoop(arr, d1, low, off, x, left, mid)
    ELSE [idx |-> left + low - 1, dict |-> d]

binary_find_right_segment_index(arr, d, low, high, off, x) ==
    LET h == high - 1
        d1 == get_wavelength_from_array(arr, d, low, off)
    IN  IF x <= d1[low] THEN [idx |-> low, dict |-> d1]
        ELSE LET d2 == get_wavelength_from_array(arr, d1, h, off)
             IN  IF x >= d2[h] THEN [idx |-> h, dict |-> d2]
                 ELSE RightLoop(arr, d2, low, off, x, 0, h - low)

-----------------------------------------------------------------------------
\* Window extraction of one element block (the body of the while loop)

\* not (max < segment_min or min > segment_max)
EnvelopeOverlaps(wavelength_minimum_element, wavelength_maximum_element) ==
    ~(wavelength_maximum_element < segment_min_wavelength
      \/ wavelength_minimum_element > segment_max_wavelength)

\* variant: the upper comparison is lost
InSegment_NoUpper(seg_begin, wavelength_current_line, seg_end) ==
    seg_begin <= wavelength_current_line

\* variant: the lower comparison is lost
InSegment_NoLower(seg_begin, wavelength_current_line, seg_end) ==
    wavelength_current_line <= seg_end

\* seg_begin <= wavelength_current_line <= seg_end
InSegment(seg_begin, wavelength_current_line, seg_end) ==
    seg_begin <= wavelength_current_line /\ wavelength_current_line <= seg_end

\* seg_current_index
GroupKey(lblflag, seg_index) == IF lblflag THEN seg_index ELSE 0

\* variant: the list of a key is created anew for every pair
AddRange_Overwrite(indices, key, pair) ==
    IF key \in DOMAIN indices
    THEN [indices EXCEPT ![key] = <<pair>>]
    ELSE indices @@ (key :> <<pair>>)

\* lines_to_write_indices[seg_current_index].append(pair), creating the list
AddRange(indices, key, pair) ==
    IF key \in DOMAIN indices
    THEN [indices EXCEPT ![key] = Append(@, pair)]
    ELSE indices @@ (key :> <<pair>>)

\* the for loop over the sorted segments, from segment i on
RECURSIVE SegmentLoop(_, _, _, _, _, _, _, _)
SegmentLoop(lines_file, N, off, segs, lblflag, i, d, indices) ==
    IF i > Len(segs) THEN indices
    ELSE LET seg_begin == segs[i][1]
             seg_end == segs[i][2]
             L == binary_find_left_segment_index(lines_file, d, 0, N, off, seg_begin)
             wavelength_current_line == L.dict[L.idx]
         IN  IF InSegment(seg_begin, wavelength_current_line, seg_end)
             THEN LET R == binary_find_right_segment_index(lines_file, L.dict, L.idx, N,
                                                           off, seg_end)
                      pair == <<L.idx + off, R.idx + off + 1>>
                  IN  SegmentLoop(lines_file, N, off, segs, lblflag, i + 1, R.dict,
                                  AddRange(indices, GroupKey(lblflag, i - 1), pair))
             ELSE SegmentLoop(lines_file, N, off, segs, lblflag, i + 1, L.dict, indices)

\* lines_to_write_indices of one block: N data lines starting at lines_file[off]
BlockIndices(lines_file, N, off, lblflag) ==
    LET d0 == get_wavelength_from_array(lines_file, <<>>, 0, off)
        d1 == get_wavelength_from_array(lines_file, d0, N - 1, off)
    IN  IF EnvelopeOverlaps(d1[0], d1[N - 1])
        THEN SegmentLoop(lines_file, N, off, segments_to_use, lblflag, 1, d1, <<>>)
        ELSE <<>>

-----------------------------------------------------------------------------
\* write_lines

RECURSIVE RangesLength(_)
RangesLength(pairs) ==
    IF Len(pairs) = 0 THEN 0
    ELSE (pairs[1][2] - pairs[1][1]) + RangesLength(Tail(pairs))

RECURSIVE RangesLines(_, _)
RangesLines(pairs, lines_file) ==
    IF Len(pairs) = 0 THEN <<>>
    ELSE Slice(lines_file, pairs[1][1], pairs[1][2]) \o RangesLines(Tail(pairs), lines_file)

\* what one key appends to its destination: header 1 with the count, header 2, the lines
WriteChunk(pairs, lines_file, elem_line_1_to_save, elem_line_2_to_save) ==
    <<elem_line_1_to_save \o <<IntToStr(RangesLength(pairs))>>, elem_line_2_to_save>>
    \o RangesLines(pairs, lines_file)

BlockChunks(indices, lines_file, elem1, elem2) ==
    [key \in DOMAIN indices |-> WriteChunk(indices[key], lines_file, elem1, elem2)]

\* the destination files a step created or changed
ChangedFiles(before, after) ==
    {k \in DOMAIN after : k \notin DOMAIN before \/ after[k] # before[k]}

\* the files after write_lines appended to linelist-<n>.bsyn of every key
write_lines(tree, chunks, n) ==
    [k \in DOMAIN tree \cup {<<key, n>> : key \in DOMAIN chunks} |->
        (IF k \in DOMAIN tree THEN tree[k] ELSE <<>>)
        \o (IF k[2] = n /\ k[1] \in DOMAIN chunks THEN chunks[k[1]] ELSE <<>>)]

\* the text of an unterminated line followed by the text of the next line:
\* the last token of the one runs into the first token of the other unless
\* blanks stand between them
Glue(a, b) ==
    LET t == SubSeq(a, 1, Len(a) - 1)
    IN  IF t = <<>> \/ b = <<>> THEN t \o b
        ELSE IF t[Len(t)] = BLANK \/ b[1] = BLANK \/ b[1] = NO_NEWLINE THEN t \o b
        ELSE SubSeq(t, 1, Len(t) - 1) \o <<t[Len(t)] \o b[1]>> \o Tail(b)

\* the lines of a file that holds the strings s written one after the other
RECURSIVE TextLines(_)
TextLines(s) ==
    IF Len(s) <= 1 THEN s
    ELSE IF Unterminated(s[1]) THEN TextLines(<<Glue(s[1], s[2])>> \o SubSeq(s, 3, Len(s)))
    ELSE <<s[1]>> \o TextLines(Tail(s))

-----------------------------------------------------------------------------
\* Input files of the model

Q == <<"'">>

\* header line 1 in the shape  '   3.000            '    1   N   (fields[0] is "'")
AtomHeader1(N) == <<Q, <<"3", ".", "0", "0", "0">>, Q, <<"1">>, IntToStr(N)>>

AtomHeader2 == << <<"'", "L", "i">>, <<"I">>, <<"L", "T", "E", "'">> >>

\* header line 1 in the shape  '01.000000             '    1   N
HydrogenHeader1(N) ==
    << <<"'", "0", "1", ".", "0", "0", "0", "0", "0", "0">>, Q, <<"1">>, IntToStr(N)>>

HydrogenHeader2 == << <<"'", "H">>, <<"I">>, <<"N", "L", "T", "E", "'">> >>

MoleculeHeader1(N) ==
    << <<"'", "0", "6", "0", "8", ".", "0", "1", "2", "0", "1", "6">>, Q, <<"1">>, IntToStr(N)>>

MoleculeHeader2 == << <<"'", "C", "O">>, <<"'">> >>

\* header whose identifier is 01.000000 without quotes
BareHeader1(N) == << <<"0", "1">>, <<".", "0", "0", "0", "0", "0", "0">>, Q, <<"1">>, IntToStr(N)>>

\* data line i of a block: the wavelength and a second column that tells the lines apart
DataLine(w, i) == <<IntToStr(w), IntToStr(i)>>

DataLines(ws) == [i \in 1..Len(ws) |-> DataLine(ws[i], i - 1)]

SortedSeqs(n, maxw) ==
    {ws \in [1..n -> 1..maxw] : \A i \in 1..(n - 1) : ws[i] <= ws[i + 1]}

Blocks == UNION {SortedSeqs(n, MaxWave) : n \in 1..MaxBlockLen}

AtomFile(ws) == <<AtomHeader1(Len(ws)), AtomHeader2>> \o DataLines(ws)

HydrogenFile(ws) == <<HydrogenHeader1(Len(ws)), HydrogenHeader2>> \o DataLines(ws)

MoleculeFile(ws) == <<MoleculeHeader1(Len(ws)), MoleculeHeader2>> \o DataLines(ws)

BareFile(ws) == <<BareHeader1(Len(ws)), HydrogenHeader2>> \o DataLines(ws)

EmptyFile == <<>>

\* a byte that the text decoding of open() rejects
UNDECODABLE == "\\xff"

\* a file whose first line holds such a byte, before a well-formed block
UndecodableFile == << <<<<UNDECODABLE>>, <<"1">>>> >> \o AtomFile(<<1, 2>>)

\* a well-formed file with such a byte in its last line
LateUndecodableFile ==
    [AtomFile(<<1, 2>>) EXCEPT ![4] = <<<<"2">>, <<"1", UNDECODABLE>>>>]

\* a file of one line of one field, without a newline
OneFieldFile == << <<Q, NO_NEWLINE>> >>

\* a file whose first line is blank ("\n"), before a well-formed block
BlankFirstLineFile == << <<>> >> \o AtomFile(<<1, 2>>)

\* the same file without the newline that ends its last line
NoFinalNewline(file) == [file EXCEPT ![Len(file)] = Append(@, NO_NEWLINE)]

\* the same file with blanks before the first token of every line
Indented(file) == [i \in 1..Len(file) |-> <<BLANK>> \o file[i]]

\* the same file with blanks after its last token and no newline
TrailingBlank(file) == [file EXCEPT ![Len(file)] = @ \o <<BLANK, NO_NEWLINE>>]

\* a file of two element blocks
TwoBlockFile == AtomFile(<<1, 2>>) \o MoleculeFile(<<2, 3, 3>>)

\* a file of three element blocks
ThreeBlockFile == AtomFile(<<2>>) \o MoleculeFile(<<1, 3>>) \o AtomFile(<<3, 3>>)

SingleFiles ==
    {AtomFile(ws) : ws \in Blocks} \cup {HydrogenFile(ws) : ws \in Blocks}
    \cup {MoleculeFile(<<1, 2>>), BareFile(<<1, 2>>), EmptyFile, TwoBlockFile}
    \cup {UndecodableFile, BlankFirstLineFile, NoFinalNewline(AtomFile(<<1, 2>>)),
          ThreeBlockFile, LateUndecodableFile, OneFieldFile,
          NoFinalNewline(Indented(AtomFile(<<1, 2>>))), TrailingBlank(AtomFile(<<1, 2>>))}

PairFiles == {HydrogenFile(<<1, 3>>), TwoBlockFile, AtomFile(<<2, 2>>), EmptyFile,
              UndecodableFile, BlankFirstLineFile}

InputDirectories ==
    {<<f>> : f \in SingleFiles} \cup {<<f, g>> : f \in PairFiles, g \in PairFiles}

SegVals == 0..(MaxWave + 1)

SegPairs == {p \in SegVals \X SegVals : p[1] <= p[2]}

SegLists == UNION {[1..k -> SegPairs] : k \in 1..MaxSegs}

-----------------------------------------------------------------------------
\* State machine

NoBlock == [valid |-> FALSE, file |-> 0, off |-> 0, N |-> 0, indices |-> <<>>,
            chunks |-> <<>>, written |-> {}, iteration |-> 0, from |-> 0,
            line |-> <<>>, elem_line_2 |-> <<>>]

LocIdle == [arr |-> <<>>, low |-> 0, x |-> 0, called |-> "none", idx |-> 0]

Init ==
    /\ files \in InputDirectories
    /\ \E sl \in SegLists :
          /\ seg_begins = [i \in 1..Len(sl) |-> sl[i][1]]
          /\ seg_ends = [i \in 1..Len(sl) |-> sl[i][2]]
    /\ molecules_flag \in BOOLEAN
    /\ lbl \in BOOLEAN
    /\ do_hydrogen \in BOOLEAN
    /\ pc = "start"
    /\ line_list_number = 0
    /\ line_number_read_file = 0
    /\ first_line_read = FALSE
    /\ dirs = {}
    /\ fs = <<>>
    /\ combined = <<>>
    /\ combines = 0
    /\ last = NoBlock
    /\ loc = LocIdle

inputs == <<files, seg_begins, seg_ends, molecules_flag, lbl, do_hydrogen>>

\* the output groups: "0", or one per segment index
Groups == IF ~lbl THEN {0} ELSE 0..(Len(seg_begins) - 1)

\* lines 39-57: sort the segments, make the group directories
MakeDirs ==
    /\ pc = "start"
    /\ dirs' = Groups
    /\ pc' = "files"
    /\ UNCHANGED <<inputs, line_list_number, line_number_read_file, first_line_read,
                   fs, combined, combines, last, loc>>

current_file == At(files, line_list_number)

first_line == current_file[1]

\* fields = first_line.strip().split()
first_fields == Fields(first_line)

lines_file == Tail(current_file)

\* element = fields[0] + fields[1]
Element(line) == line[1] \o line[2]

\* len(elements) > 3 and molecules_flag or len(elements) <= 3
Kept(element) ==
    (Len(BeforeDot(element)) > 3 /\ molecules_flag) \/ Len(BeforeDot(element)) <= 3

\* element == "'01.000000'" and do_hydrogen
IsHydrogenCopy(element) == element = HYDROGEN_QUOTED /\ do_hydrogen

\* elif element != '01.000000'
IsWindowed(element) == ~IsHydrogenCopy(element) /\ element # HYDROGEN_BARE

AtFile == pc = "files" /\ line_list_number < Len(files)

NextFile ==
    /\ line_list_number' = line_list_number + 1
    /\ UNCHANGED <<inputs, pc, line_number_read_file, first_line_read, dirs, fs,
                   combined, combines, last, loc>>

\* fp.readline() raises UnicodeDecodeError: the text layer decodes the whole
\* chunk it has buffered, which for the files of the model is the whole file
DecodeFails(file) ==
    \E l \in 1..Len(file) :
        \E i \in 1..Len(file[l]) : \E j \in 1..Len(file[l][i]) : file[l][i][j] = UNDECODABLE

\* lines 63-67: the first line cannot be decoded
SkipUndecodable ==
    /\ AtFile
    /\ DecodeFails(current_file)
    /\ NextFile

\* the file has no content: readline() returns the empty string
NoContent(file) == file = <<>> \/ file = << <<NO_NEWLINE>> >>

\* lines 69-71: the first line is empty
SkipEmpty ==
    /\ AtFile
    /\ NoContent(current_file)
    /\ NextFile

\* the first line was read and is not the empty string
FirstLineRead == ~NoContent(current_file) /\ ~DecodeFails(current_file)

\* lines 72-74: fields[0] + fields[1] raises IndexError on a first line of
\* fewer than two fields; nothing catches it
FirstLineIndexError ==
    /\ AtFile
    /\ FirstLineRead
    /\ Len(first_fields) < 2
    /\ pc' = "aborted"
    /\ UNCHANGED <<inputs, line_list_number, line_number_read_file, first_line_read,
                   dirs, fs, combined, combines, last, loc>>

\* lines 72-75: the first line gives an element identifier
HasElement == FirstLineRead /\ Len(first_fields) >= 2

\* lines 78, 96: a molecule that is not wanted, or the unquoted identifier
IgnoreFile ==
    /\ AtFile
    /\ HasElement
    /\ ~Kept(Element(first_fields)) \/ (~IsHydrogenCopy(Element(first_fields))
                                      /\ ~IsWindowed(Element(first_fields)))
    /\ NextFile

\* variant: per-segment layout copies to the first group only
CopyToGroups_FirstOnly(tree, n, content) ==
    [k \in DOMAIN tree \cup {<<0, n>>} |->
        IF k[2] = n /\ k[1] = 0 THEN content ELSE tree[k]]

\* shutil.copyfile of the whole file to every group
CopyToGroups(tree, n, content) ==
    [k \in DOMAIN tree \cup {<<g, n>> : g \in Groups} |->
        IF k[2] = n /\ k[1] \in Groups THEN content ELSE tree[k]]

\* lines 81-95
CopyHydrogen ==
    /\ AtFile
    /\ HasElement
    /\ Kept(Element(first_fields))
    /\ IsHydrogenCopy(Element(first_fields))
    /\ fs' = CopyToGroups(fs, line_list_number, current_file)
    /\ line_list_number' = line_list_number + 1
    /\ UNCHANGED <<inputs, pc, line_number_read_file, first_line_read, dirs,
                   combined, combines, last, loc>>

\* lines 96-106
ReadFile ==
    /\ AtFile
    /\ HasElement
    /\ Kept(Element(first_fields))
    /\ ~IsHydrogenCopy(Element(first_fields))
    /\ IsWindowed(Element(first_fields))
    /\ pc' = "blocks"
    /\ line_number_read_file' = 0
    /\ first_line_read' = TRUE
    /\ UNCHANGED <<inputs, line_list_number, dirs, fs, combined, combines, last, loc>>

\* variant: only the block at the first line is read
MoreBlocks_FirstOnly == first_line_read

\* while line_number_read_file + 1 < total_lines_in_file
MoreBlocks == line_number_read_file + 1 < Len(lines_file) + 1

\* lines 111-132: the header of the block the cursor is at
HeaderLine == IF first_line_read THEN first_line ELSE At(lines_file, line_number_read_file)

HeaderCursor == IF first_line_read THEN line_number_read_file ELSE line_number_read_file + 1

LongFirstField(fields) == Len(fields[1]) > 1

elem_line_1(fields) ==
    IF LongFirstField(fields) THEN <<fields[1], fields[2], fields[3]>>
    ELSE <<fields[1], fields[2], fields[3], fields[4]>>

number_of_lines(fields) ==
    IF LongFirstField(fields) THEN ParseInt(fields[4]) ELSE ParseInt(fields[5])

\* the number of the while loop's next iteration in the current file
Iteration == IF last.valid /\ last.file = line_list_number THEN last.iteration + 1 ELSE 1

\* lines 107-180: one iteration of the while loop
ProcessBlock ==
    /\ pc = "blocks"
    /\ MoreBlocks
    /\ LET fields == Fields(HeaderLine)
           elem1 == elem_line_1(fields)
           N == number_of_lines(fields)
           elem2 == At(lines_file, HeaderCursor)
           off == HeaderCursor + 1
           indices == BlockIndices(lines_file, N, off, lbl)
           chunks == BlockChunks(indices, lines_file, elem1, elem2)
       IN  /\ line_number_read_file' = N + off
           /\ fs' = write_lines(fs, chunks, line_list_number)
           /\ last' = [valid |-> TRUE, file |-> line_list_number, off |-> off,
                       N |-> N, indices |-> indices, chunks |-> chunks,
                       written |-> ChangedFiles(fs, write_lines(fs, chunks, line_list_number)),
                       iteration |-> Iteration, from |-> line_number_read_file,
                       line |-> HeaderLine, elem_line_2 |-> elem2]
    /\ first_line_read' = FALSE
    /\ UNCHANGED <<inputs, pc, line_list_number, dirs, combined, combines, loc>>

\* the while loop ends and the for loop goes on
EndFile ==
    /\ pc = "blocks"
    /\ ~MoreBlocks
    /\ pc' = "files"
    /\ line_list_number' = line_list_number + 1
    /\ UNCHANGED <<inputs, line_number_read_file, first_line_read, dirs, fs,
                   combined, combines, last, loc>>

\* create_window_linelist returns
Finish ==
    /\ pc = "files"
    /\ line_list_number = Len(files)
    /\ pc' = "done"
    /\ UNCHANGED <<inputs, line_list_number, line_number_read_file, first_line_read,
                   dirs, fs, combined, combines, last, loc>>

-----------------------------------------------------------------------------
\* combine_linelists

FileNumbers == 0..(Len(files) - 1)

\* the orders os.listdir may return the files of a folder in
ListingOrders ==
    {o \in [1..Len(files) -> FileNumbers] :
        \A i, j \in 1..Len(files) : i # j => o[i] # o[j]}

\* concatenation of the per-file documents of a folder, in listing order
RECURSIVE ConcatFolder(_, _, _, _)
ConcatFolder(tree, folder, order, i) ==
    IF i > Len(order) THEN <<>>
    ELSE (IF <<folder, order[i]>> \in DOMAIN tree THEN tree[<<folder, order[i]>>] ELSE <<>>)
         \o ConcatFolder(tree, folder, order, i + 1)

\* lines 344-361 with return_parsed_linelist = False
Combine ==
    /\ pc = "done"
    /\ combines < MaxCombines
    /\ \E order \in [dirs -> ListingOrders] :
          combined' = [folder \in dirs |-> ConcatFolder(fs, folder, order[folder], 1)]
    /\ fs' = <<>>
    /\ combines' = combines + 1
    /\ UNCHANGED <<inputs, pc, line_list_number, line_number_read_file,
                   first_line_read, dirs, last, loc>>

Next ==
    \/ MakeDirs
    \/ SkipUndecodable
    \/ SkipEmpty
    \/ FirstLineIndexError
    \/ IgnoreFile
    \/ CopyHydrogen
    \/ ReadFile
    \/ ProcessBlock
    \/ EndFile
    \/ Finish
    \/ Combine

Spec == Init /\ [][Next]_vars

-----------------------------------------------------------------------------
\* The boundary locators called directly on one element block

LocArrays ==
    {<<AtomHeader1(Len(ws)), AtomHeader2>> \o DataLines(ws) :
        ws \in UNION {SortedSeqs(n, LocMaxWave) : n \in 1..LocMaxLen}}

\* the block's lines follow its two header lines
LocOffset == 2

LocN == Len(loc.arr) - LocOffset

LocWave(i) == LineWavelength(At(loc.arr, i + LocOffset))

InitLoc ==
    /\ \E a \in LocArrays, x \in 0..(LocMaxWave + 1) :
          \E low \in 0..(Len(a) - LocOffset - 1) :
             loc = [arr |-> a, low |-> low, x |-> x, called |-> "none", idx |-> 0]
    /\ files = <<>>
    /\ seg_begins = <<>>
    /\ seg_ends = <<>>
    /\ molecules_flag = FALSE
    /\ lbl = FALSE
    /\ do_hydrogen = FALSE
    /\ pc = "locators"
    /\ line_list_number = 0
    /\ line_number_read_file = 0
    /\ first_line_read = FALSE
    /\ dirs = {}
    /\ fs = <<>>
    /\ combined = <<>>
    /\ combines = 0
    /\ last = NoBlock

notLoc == <<files, seg_begins, seg_ends, molecules_flag, lbl, do_hydrogen, pc,
            line_list_number, line_number_read_file, first_line_read, dirs, fs,
            combined, combines, last>>

\* binary_find_left_segment_index(lines, {}, 0, N, offset, x), as line 149 calls it
CallLeft ==
    /\ pc = "locators"
    /\ loc.called = "none"
    /\ loc.low = 0
    /\ loc' = [loc EXCEPT !.called = "left",
                          !.idx = binary_find_left_segment_index(
                                      loc.arr, <<>>, 0, LocN, LocOffset, loc.x).idx]
    /\ UNCHANGED notLoc

\* binary_find_right_segment_index(lines, {}, low, N, offset, x), called as line 155
\* calls it: the wavelength at low is not above x
CallRight ==
    /\ pc = "locators"
    /\ loc.called = "none"
    /\ LocWave(loc.low) <= loc.x
    /\ loc' = [loc EXCEPT !.called = "right",
                          !.idx = binary_find_right_segment_index(
                                      loc.arr, <<>>, loc.low, LocN, LocOffset, loc.x).idx]
    /\ UNCHANGED notLoc

NextLoc == CallLeft \/ CallRight

SpecLoc == InitLoc /\ [][NextLoc]_vars

-----------------------------------------------------------------------------
\* The example of the locators' docstrings (lines 230-236, 278-284)

\* the array of the example
ExampleArray == <<12, 20, 32, 40, 52>>

\* the example array as the data lines of one element block
ExampleLines == <<AtomHeader1(Len(ExampleArray)), AtomHeader2>> \o DataLines(ExampleArray)

\* the values the example searches for
ExampleTargets == {5, 13, 20, 21, 51, 52, 53}

\* the results the example gives for binary_find_left_segment_index
ExampleLeft ==
    (5 :> 0) @@ (13 :> 1) @@ (20 :> 1) @@ (21 :> 2) @@ (51 :> 4) @@ (52 :> 4) @@ (53 :> 5)

\* the results the example gives for binary_find_right_segment_index
ExampleRight ==
    (5 :> 0) @@ (13 :> 0) @@ (20 :> 1) @@ (21 :> 1) @@ (51 :> 3) @@ (52 :> 3) @@ (53 :> 4)

\* the locators are called on the example array with any target up to ExampleMaxTarget
InitExample ==
    /\ \E x \in 0..ExampleMaxTarget, low \in 0..(Len(ExampleArray) - 1) :
          loc = [arr |-> ExampleLines, low |-> low, x |-> x, called |-> "none", idx |-> 0]
    /\ files = <<>>
    /\ seg_begins = <<>>
    /\ seg_ends = <<>>
    /\ molecules_flag = FALSE
    /\ lbl = FALSE
    /\ do_hydrogen = FALSE
    /\ pc = "locators"
    /\ line_list_number = 0
    /\ line_number_read_file = 0
    /\ first_line_read = FALSE
    /\ dirs = {}
    /\ fs = <<>>
    /\ combined = <<>>
    /\ combines = 0
    /\ last = NoBlock

SpecExample == InitExample /\ [][NextLoc]_vars

-----------------------------------------------------------------------------
\* Properties

\* the first-line identifier of input file n is the hydrogen sentinel
IsHydrogenFile(n) ==
    /\ ~NoContent(At(files, n))
    /\ ~DecodeFails(At(files, n))
    /\ Len(Fields(At(files, n)[1])) >= 2
    /\ Element(Fields(At(files, n)[1])) = HYDROGEN_QUOTED

\* the block of the last iteration
LastLines == Tail(At(files, last.file))

LastWave(j) == LineWavelength(At(LastLines, j + last.off))

LastIndexes == 0..(last.N - 1)

\* the data lines of a chunk written by write_lines
DataOf(chunk) == SubSeq(chunk, 3, Len(chunk))

\* the count that ends header line 1 of a chunk
CountOf(chunk) == ParseInt(chunk[1][Len(chunk[1])])

SegIndexes == 1..Len(seg_begins)

\* C1: every data line written for a block lies in the segment of its group
\* (per-segment layout; group k belongs to the k-th segment in the sorted order
\* the engine uses), or in at least one segment (merged layout, group 0).
SoundExtraction ==
    last.valid =>
        \A key \in DOMAIN last.chunks :
            \A i \in 1..Len(DataOf(last.chunks[key])) :
                LET w == LineWavelength(DataOf(last.chunks[key])[i])
                IN  IF lbl
                    THEN segments_to_use[key + 1][1] <= w /\ w <= segments_to_use[key + 1][2]
                    ELSE \E s \in SegIndexes : seg_begins[s] <= w /\ w <= seg_ends[s]

\* C1 witness: a block flushed in per-segment layout with two segments, one of
\* whose groups received only part of the block.
SoundExtractionWitness ==
    /\ last.valid
    /\ lbl
    /\ Len(seg_begins) = 2
    /\ \E key \in DOMAIN last.chunks :
          /\ Len(DataOf(last.chunks[key])) < last.N
          /\ Len(DataOf(last.chunks[key])) >= 1

\* the indexes of the block's lines inside [b, e]
InWindow(b, e) == {j \in LastIndexes : b <= LastWave(j) /\ LastWave(j) <= e}

SetMin(S) == CHOOSE x \in S : \A y \in S : x <= y

SetMax(S) == CHOOSE x \in S : \A y \in S : x >= y

\* C2: in per-segment layout the range recorded for a segment is the inclusive
\* index range of all the block's lines inside the segment, and nothing is
\* recorded for a segment that holds none.
CompleteExtraction ==
    (last.valid /\ lbl /\ ~IsHydrogenFile(last.file)) =>
        \A i \in SegIndexes :
            LET want == InWindow(segments_to_use[i][1], segments_to_use[i][2])
            IN  IF want = {} THEN (i - 1) \notin DOMAIN last.indices
                ELSE /\ (i - 1) \in DOMAIN last.indices
                     /\ last.indices[i - 1] =
                            << <<SetMin(want) + last.off, SetMax(want) + last.off + 1>> >>

\* C3: over the whole block the left locator returns the smallest index whose
\* wavelength is >= the target, or the last index when the target exceeds all.
LeftIsLowerBound ==
    loc.called = "left" =>
        LET ge == {i \in 0..(LocN - 1) : LocWave(i) >= loc.x}
        IN  loc.idx = IF ge = {} THEN LocN - 1 ELSE SetMin(ge)

\* C4: called with a start index whose wavelength is <= the target, the right
\* locator returns the largest index from low on whose wavelength is <= the target.
RightIsUpperBound ==
    loc.called = "right" =>
        loc.idx = SetMax({j \in loc.low..(LocN - 1) : LocWave(j) <= loc.x})

\* C5: with do_hydrogen false no destination file exists for a hydrogen file.
HydrogenDisabledNoOutput ==
    ~do_hydrogen => \A k \in DOMAIN fs : ~IsHydrogenFile(k[2])

\* the files the for loop has finished with
Processed == {n \in 0..(Len(files) - 1) : n < line_list_number}

\* C6: with do_hydrogen true, once the loop has passed a hydrogen file its
\* destination in every group is a copy of the whole source file.
HydrogenCopiedVerbatim ==
    (do_hydrogen /\ combines = 0) =>
        \A n \in Processed :
            IsHydrogenFile(n) =>
                \A g \in (IF lbl THEN 0..(Len(seg_begins) - 1) ELSE {0}) :
                    /\ <<g, n>> \in DOMAIN fs
                    /\ fs[<<g, n>>] = At(files, n)

\* C6 witness: a hydrogen file copied to both groups of a two-segment
\* per-segment run although one of its lines lies in no segment.
HydrogenCopiedWitness ==
    /\ do_hydrogen
    /\ lbl
    /\ Len(seg_begins) = 2
    /\ pc = "done"
    /\ combines = 0
    /\ \E n \in Processed :
          /\ IsHydrogenFile(n)
          /\ <<0, n>> \in DOMAIN fs /\ <<1, n>> \in DOMAIN fs
          /\ \E i \in 3..Len(At(files, n)) :
                \A s \in SegIndexes :
                    ~(seg_begins[s] <= LineWavelength(At(files, n)[i])
                      /\ LineWavelength(At(files, n)[i]) <= seg_ends[s])

\* C7: a block whose every wavelength lies inside a requested segment has its
\* declared count N in the header written for that segment's group.
ConservedCount ==
    (last.valid /\ ~IsHydrogenFile(last.file)) =>
        \A i \in SegIndexes :
            (\A j \in LastIndexes :
                segments_to_use[i][1] <= LastWave(j) /\ LastWave(j) <= segments_to_use[i][2])
            => LET key == IF lbl THEN i - 1 ELSE 0
               IN  /\ key \in DOMAIN last.chunks
                   /\ CountOf(last.chunks[key]) = last.N

\* C8: once combine_linelists has run, running it again changes no combined document.
CombineIdempotent == [][combines >= 1 => combined' = combined]_vars

\* number of occurrences of each line
BagOfLines(s) == [x \in {s[i] : i \in 1..Len(s)} |-> Cardinality({i \in 1..Len(s) : s[i] = x})]

RECURSIVE ConcatData(_, _)
ConcatData(chunks, keys) ==
    IF keys = {} THEN <<>>
    ELSE LET k == SetMin(keys)
         IN  DataOf(chunks[k]) \o ConcatData(chunks, keys \ {k})

\* what the block of the last iteration gives under a layout
ChunksUnder(lblflag) ==
    IF lblflag = lbl THEN last.chunks
    ELSE BlockChunks(BlockIndices(LastLines, last.N, last.off, lblflag), LastLines,
                     <<Q>>, <<Q>>)

\* C9: the data lines the merged layout writes to group 0 for a block are, as
\* a multiset, the data lines the per-segment layout writes to all its groups.
MergedEqualsPerSegment ==
    last.valid =>
        BagOfLines(ConcatData(ChunksUnder(FALSE), DOMAIN ChunksUnder(FALSE)))
            = BagOfLines(ConcatData(ChunksUnder(TRUE), DOMAIN ChunksUnder(TRUE)))

\* C9 witness: a merged-layout block that matched two segments.
MergedEqualsWitness ==
    /\ last.valid
    /\ ~lbl
    /\ 0 \in DOMAIN last.indices
    /\ Len(last.indices[0]) = 2

\* the block's span [min, max] meets no requested segment
SpanOutsideAll ==
    \A s \in SegIndexes :
        LastWave(last.N - 1) < seg_begins[s] \/ LastWave(0) > seg_ends[s]

\* C10: a block whose span meets no segment writes nothing: the iteration
\* creates or changes no destination file.
ExcludedBlockWritesNothing ==
    (last.valid /\ SpanOutsideAll) => (last.written = {} /\ DOMAIN last.chunks = {})

\* C10 witness: a block processed in the gap between two segments, inside the
\* global envelope.
ExcludedBlockWitness ==
    /\ last.valid
    /\ SpanOutsideAll
    /\ segment_min_wavelength < LastWave(0)
    /\ LastWave(last.N - 1) < segment_max_wavelength

\* C11: on the example array [12, 20, 32, 40, 52] searched over its full range
\* the left locator returns 1, 1, 2, 4, 5 and the right locator 0, 1, 1, 3, 4
\* for the targets 13, 20, 21, 52, 53.
ExampleTable ==
    (loc.arr = ExampleLines /\ loc.low = 0 /\ loc.x \in ExampleTargets \ {5, 51}) =>
        /\ loc.called = "left" => loc.idx = ExampleLeft[loc.x]
        /\ loc.called = "right" => loc.idx = ExampleRight[loc.x]

\* the first line of the file cannot be decoded or is empty, or the file has
\* no content at all
FirstLineUnusable(file) == DecodeFails(file) \/ NoContent(file) \/ Fields(file[1]) = <<>>

\* C12: when the loop is at a file whose first line cannot be decoded or is
\* empty, its step only moves on to the next file: no destination file exists
\* for the skipped file, the run goes on (the position stays in the file
\* loop), and nothing any other file's processing reads or writes is changed.
SkipIsHarmless ==
    [][(AtFile /\ FirstLineUnusable(current_file)) =>
            /\ line_list_number' = line_list_number + 1
            /\ \A g \in Groups : <<g, line_list_number>> \notin DOMAIN fs'
            /\ UNCHANGED <<inputs, pc, line_number_read_file, first_line_read, dirs,
                           fs, combined, combines, last>>]_vars

IsNumber(token) ==
    token # <<>> /\ \A i \in 1..Len(token) : \E d \in 1..10 : Digits[d] = token[i]

\* a data line begins with a wavelength
IsDataLine(line) == Fields(line) # <<>> /\ IsNumber(Fields(line)[1])

\* the count that ends a header line 1
DeclaredCount(line) == ParseInt(Fields(line)[Len(Fields(line))])

\* the positions of the header lines 1 of a source file, from position s on,
\* each block being two header lines and the declared count of data lines
RECURSIVE BlockStarts(_, _)
BlockStarts(file, s) ==
    IF s > Len(file) THEN <<>>
    ELSE <<s>> \o BlockStarts(file, s + 2 + DeclaredCount(file[s]))

\* the second header lines of the blocks of a source file
SecondHeaders(file) ==
    {file[BlockStarts(file, 1)[i] + 1] : i \in 1..Len(BlockStarts(file, 1))}

\* the lines are a sequence of blocks: a header line 1 ending with a count
\* c >= 1, a second header line taken from the source, exactly c data lines
RECURSIVE WellFormedBlocks(_, _)
WellFormedBlocks(lines, headers2) ==
    IF lines = <<>> THEN TRUE
    ELSE /\ Len(lines) >= 2
         /\ Fields(lines[1]) # <<>>
         /\ IsNumber(Fields(lines[1])[Len(Fields(lines[1]))])
         /\ LET c == DeclaredCount(lines[1])
            IN  /\ c >= 1
                /\ lines[2] \in headers2
                /\ Len(lines) >= 2 + c
                /\ \A i \in 3..(2 + c) : IsDataLine(lines[i])
                /\ WellFormedBlocks(SubSeq(lines, 3 + c, Len(lines)), headers2)

\* the destination files write_lines wrote (the others are copies of hydrogen files)
WrittenByWriteLines == {k \in DOMAIN fs : ~(do_hydrogen /\ IsHydrogenFile(k[2]))}

\* C13: at every moment every destination file written by write_lines reads as
\* a sequence of blocks whose header line 1 ends with a count c >= 1, whose
\* header line 2 is a second header line of the source file, and which have
\* exactly c data lines; the block an iteration appends carries the second
\* header line of the very block it read.
WellFormedOutput ==
    /\ \A k \in WrittenByWriteLines :
          WellFormedBlocks(TextLines(fs[k]), SecondHeaders(At(files, k[2])))
    /\ last.valid =>
          \A key \in DOMAIN last.chunks :
              last.chunks[key][2] = At(LastLines, last.off - 1)

\* the blocks of the file the loop is at, or was at in its last iteration
LastStarts == BlockStarts(At(files, last.file), 1)

\* C14: in a non-hydrogen file of k blocks the i-th iteration of the reader
\* loop uses header line 1, header line 2, the declared count and the data
\* lines of the i-th block (the first line of the file for block 1), it leaves
\* the cursor behind the block and further than it found it, and the loop
\* ends after exactly k iterations with the cursor at the end of the lines.
BlockCursorWalk ==
    /\ (last.valid /\ ~IsHydrogenFile(last.file)) =>
          LET f == At(files, last.file)
              i == last.iteration
          IN  /\ i \in 1..Len(LastStarts)
              /\ last.line = f[LastStarts[i]]
              /\ last.elem_line_2 = f[LastStarts[i] + 1]
              /\ last.N = DeclaredCount(f[LastStarts[i]])
              /\ last.N >= 1
              /\ last.off = LastStarts[i]
              /\ last.from < last.off + last.N
              /\ (i = 1) = (last.from = 0)
    /\ (pc = "blocks" /\ ~first_line_read /\ ~IsHydrogenFile(line_list_number)) =>
          /\ last.valid /\ last.file = line_list_number
          /\ line_number_read_file = last.off + last.N
          /\ line_number_read_file <= Len(lines_file)
          /\ ~MoreBlocks =>
                /\ last.iteration = Len(LastStarts)
                /\ line_number_read_file = Len(lines_file)

\* C14 witness: the loop has ended on a file of three blocks after its third
\* iteration.
BlockCursorWalkWitness ==
    /\ pc = "blocks"
    /\ ~MoreBlocks
    /\ ~IsHydrogenFile(line_list_number)
    /\ last.valid /\ last.file = line_list_number
    /\ last.iteration = 3
    /\ Len(LastStarts) = 3

\* the indexes into lines_file that a list of ranges writes, in writing order
RECURSIVE RangesIndexes(_)
RangesIndexes(pairs) ==
    IF Len(pairs) = 0 THEN <<>>
    ELSE [i \in 1..(pairs[1][2] - pairs[1][1]) |-> pairs[1][1] + i - 1]
         \o RangesIndexes(Tail(pairs))

\* C15: in merged layout the data lines written to group 0 for a block are
\* source lines of the block at strictly increasing positions (original order,
\* none twice), so the count in the header is at most the declared count.
MergedIsSubsequence ==
    (last.valid /\ ~lbl /\ ~IsHydrogenFile(last.file) /\ 0 \in DOMAIN last.chunks) =>
        LET idx == RangesIndexes(last.indices[0])
        IN  /\ \A i, j \in 1..Len(idx) : i < j => idx[i] < idx[j]
            /\ \A i \in 1..Len(idx) : last.off <= idx[i] /\ idx[i] < last.off + last.N
            /\ DataOf(last.chunks[0]) = [i \in 1..Len(idx) |-> At(LastLines, idx[i])]
            /\ CountOf(last.chunks[0]) <= last.N
====
